---- MODULE Spec2Model ----
(***************************************************************************)
(* The local persistence layer of the livestock record keeper:             *)
(*   src/src/data/animal.repo.ts   listAnimals, upsertAnimal, loadWeb,     *)
(*                                 saveWeb (blob backend = localStorage)   *)
(*   src/src/core/db/sqlite.ts     getDb, getMod, initDb, run, getAll      *)
(*                                 (structured backend = expo-sqlite)      *)
(*                                                                         *)
(* Values.  A JavaScript object is a function from its keys to values; a   *)
(* key whose value is `undefined` holds Undef, a SQL NULL is Null, and a   *)
(* key that JSON.stringify dropped is outside the function's domain.       *)
(* id, updatedAt and version are integers (an ISO-8601 UTC timestamp of    *)
(* Date.toISOString() compares as a string exactly as its instant does,    *)
(* so updatedAt is the clock reading itself); every other value is a       *)
(* string.                                                                 *)
(***************************************************************************)
EXTENDS Integers, Sequences, FiniteSets, TLC

VARIABLES
    isWeb,      \* animal.repo.ts:37, sqlite.ts:147  Platform.OS === 'web'
    blob,       \* localStorage['pvf.animals']: absent, unparsable, or a JSON array
    cols,       \* columns of table animals; {} while the table does not exist
    notNull,    \* the columns of the table declared NOT NULL
    rows,       \* the rows of table animals
    sqliteMod,  \* sqlite.ts:151  the cached expo-sqlite module (TRUE once imported)
    dbPromise,  \* sqlite.ts:152  0 = null, n = the promise of the n-th open
    opens,      \* number of openDatabaseAsync invocations so far
    rejected,   \* the opens whose promise rejected
    now,        \* the wall clock read by new Date()
    uuids,      \* number of ids uuidv4() has produced
    call,       \* the last repository call: operation, input, store before it
    ret,        \* what that call returned or threw
    pc,         \* SpecOpen: each caller's position inside initDb / run / getAll
    handle,     \* SpecOpen: the database handle each caller obtained from getDb
    inflight    \* SpecUpsert: each caller's upsertAnimal: its entity, its outcome

vars == <<isWeb, blob, cols, notNull, rows, sqliteMod, dbPromise, opens,
          rejected, now, uuids, call, ret, pc, handle, inflight>>

storeVars == <<blob, cols, notNull, rows>>
dbVars == <<sqliteMod, dbPromise, opens, rejected>>
openVars == <<pc, handle, inflight>>

-----------------------------------------------------------------------------
(* Bounds of the model *)

MaxCreate == 2
MaxTime == 2
MaxVersion == 1
NumCallers == 2
MaxFailAt == 5

-----------------------------------------------------------------------------
(* Values *)

Undef == "<undefined>"
Null == "<null>"

IntKeys == {"id", "updatedAt", "version"}

\* The property k of object o holds a value (is neither missing, undefined nor null).
Has(o, k) == k \in DOMAIN o /\ (k \in IntKeys \/ o[k] \notin {Undef, Null})

\* The attributes of the Animal entity (domain/animal.ts:40-55 plus the ones the
\* form and the table add).
AnimalKeys ==
    {"id", "tag", "type", "sex", "breed", "birthDate", "weightKg", "updatedAt", "version"}

\* Two records agree on attribute k, null and undefined (and a missing key) being one.
SameAttr(a, b, k) == (Has(a, k) <=> Has(b, k)) /\ (Has(a, k) => a[k] = b[k])

SameAnimal(a, b) == \A k \in AnimalKeys : SameAttr(a, b, k)

\* The empty object / no value.
NoRec == [k \in {} |-> Undef]

RECURSIVE SeqToSet(_)
SeqToSet(s) == IF s = <<>> THEN {} ELSE {Head(s)} \cup SeqToSet(Tail(s))

\* All orderings of the finite set S of records.
RECURSIVE Perms(_)
Perms(S) ==
    IF S = {} THEN {<<>>}
    ELSE UNION {{<<x>> \o p : p \in Perms(S \ {x})} : x \in S}

\* o.k in JavaScript: undefined when the object has no such key.
Prop(o, k) == IF k \in DOMAIN o THEN o[k] ELSE Undef

-----------------------------------------------------------------------------
(* Structured backend: the schema (sqlite.ts) *)

\* sqlite.ts:101-109  the table as the earlier initDb created it.
OldCols == {"id", "tag", "sex", "breed", "birthDate", "updatedAt", "version"}
OldNotNull == {"id", "tag", "sex", "updatedAt", "version"}

\* sqlite.ts:182-207  CREATE TABLE IF NOT EXISTS animals (...)
CurrentCols ==
    {"id", "tag", "type", "sex", "breed", "origin", "lot", "pasture",
     "purchaseDate", "birthDate", "weightKg", "priceValue", "supplier",
     "weaningDate", "saleDate", "buyer", "sireTag", "damTag", "causeMortis",
     "notes", "pastureStartDate", "confinementStartDate", "updatedAt", "version"}
CurrentNotNull == {"id", "tag", "type", "sex", "updatedAt", "version"}

\* sqlite.ts:214-220  the columns the additive migration adds when missing.
addIfMissing ==
    {"type", "origin", "lot", "pasture", "purchaseDate", "weightKg",
     "priceValue", "supplier", "weaningDate", "saleDate", "buyer", "sireTag",
     "damTag", "causeMortis", "notes", "pastureStartDate", "confinementStartDate"}

\* sqlite.ts:214-220, 222  the same columns in the order the loop visits them.
addIfMissingOrder ==
    <<"type", "origin", "lot", "pasture", "purchaseDate", "weightKg",
      "priceValue", "supplier", "weaningDate", "saleDate", "buyer", "sireTag",
      "damTag", "causeMortis", "notes", "pastureStartDate", "confinementStartDate">>

\* ALTER TABLE animals ADD COLUMN c: existing rows read NULL in the new column.
AddColumns(rs, add) ==
    {[c \in (DOMAIN r) \cup add |-> IF c \in DOMAIN r THEN r[c] ELSE Null] : r \in rs}

-----------------------------------------------------------------------------
(* Structured backend: the shared handle, run sequentially (sqlite.ts:154-167) *)

\* getDb() called with no other call in flight.  openOk: whether the promise
\* openDatabaseAsync returns resolves.  db.ok: whether `await getDb()` yields a
\* handle (FALSE: it throws the rejection of the memoized promise).
getDb(openOk) ==
    IF dbPromise = 0
    THEN [sqliteMod |-> TRUE, dbPromise |-> opens + 1, opens |-> opens + 1,
          rejected |-> IF openOk THEN rejected ELSE rejected \cup {opens + 1},
          ok |-> openOk]
    ELSE [sqliteMod |-> sqliteMod, dbPromise |-> dbPromise, opens |-> opens,
          rejected |-> rejected, ok |-> dbPromise \notin rejected]

-----------------------------------------------------------------------------
(* Blob backend (animal.repo.ts:45-62) *)

\* JSON.stringify of one object: a key whose value is undefined is left out.
JsonObject(o) == [k \in {x \in DOMAIN o : x \in IntKeys \/ o[x] # Undef} |-> o[k]]

\* JSON.parse(JSON.stringify(list))
JsonArray(list) == [i \in 1..Len(list) |-> JsonObject(list[i])]

\* A variant of loadWeb without the try/catch: JSON.parse throws on a bad value.
loadWebNoCatch ==
    [threw |-> blob.kind = "corrupt",
     list |-> IF blob.kind = "json" THEN blob.list ELSE <<>>]

\* animal.repo.ts:45-52  never throws: an absent or unparsable value reads as [].
loadWeb ==
    [threw |-> FALSE, list |-> IF blob.kind = "json" THEN blob.list ELSE <<>>]

\* A variant of saveWeb whose failed write loses the stored value (the key is
\* removed first and the list written after).
saveWebLosing(list, writeOk) ==
    IF writeOk THEN [kind |-> "json", list |-> JsonArray(list)]
    ELSE [kind |-> "absent", list |-> <<>>]

\* animal.repo.ts:58-62  the value stored after saveWeb(list); a failing setItem
\* (quota, no localStorage) is swallowed and leaves the stored value as it was.
saveWeb(list, writeOk) ==
    IF writeOk THEN [kind |-> "json", list |-> JsonArray(list)] ELSE blob

\* list.findIndex(a => a.id === id), 0 when there is none.
RECURSIVE findIndexFrom(_, _, _)
findIndexFrom(list, id, i) ==
    IF i > Len(list) THEN 0
    ELSE IF Prop(list[i], "id") = id THEN i
    ELSE findIndexFrom(list, id, i + 1)

findIndex(list, id) == findIndexFrom(list, id, 1)

-----------------------------------------------------------------------------
(* What a call returns *)

Ok(rec) == [kind |-> "ok", rec |-> rec, list |-> <<>>, err |-> ""]
OkList(list) == [kind |-> "ok", rec |-> NoRec, list |-> list, err |-> ""]
OkVoid == [kind |-> "ok", rec |-> NoRec, list |-> <<>>, err |-> ""]
NotFound == [kind |-> "notfound", rec |-> NoRec, list |-> <<>>, err |-> ""]
Throws(err) == [kind |-> "error", rec |-> NoRec, list |-> <<>>, err |-> err]

OpenError == "cannot open pvf.db"
NoTable == "no such table: animals"
NotNullFailed == "NOT NULL constraint failed"
IoError == "disk I/O error"
DuplicateColumn == "duplicate column name"

-----------------------------------------------------------------------------
(* Structured backend: statements (sqlite.ts:230-244) *)

\* A bound parameter: undefined and null both bind as NULL.
Bind(v) == IF v = Undef THEN Null ELSE v

\* A variant of InsertOrReplace that keeps the old row's value in every column
\* the new row leaves NULL (an UPDATE ... SET c = COALESCE(?, c)).
InsertKeepingOld(params, ioOk) ==
    IF cols = {} THEN [rows |-> rows, err |-> NoTable]
    ELSE IF \E c \in notNull : c \notin DOMAIN params \/ ~Has(params, c)
    THEN [rows |-> rows, err |-> NotNullFailed]
    ELSE IF ~ioOk THEN [rows |-> rows, err |-> IoError]
    ELSE LET old == {r \in rows : r.id = params.id}
             new == [c \in cols |-> IF c \in DOMAIN params THEN params[c] ELSE Null]
         IN  [rows |-> (rows \ old) \cup
                       {IF old = {} THEN new
                        ELSE [c \in cols |->
                                IF Has(new, c) THEN new[c]
                                ELSE (CHOOSE r \in old : TRUE)[c]]},
              err |-> ""]

\* db.runAsync('INSERT OR REPLACE INTO animals (<DOMAIN params>) VALUES (...)'):
\* the row with the same primary key is deleted and the new row inserted, every
\* column the statement does not name taking its default, NULL.  ioOk: whether
\* the write reaches the disk.
InsertOrReplace(params, ioOk) ==
    IF cols = {} THEN [rows |-> rows, err |-> NoTable]
    ELSE IF \E c \in notNull : c \notin DOMAIN params \/ ~Has(params, c)
    THEN [rows |-> rows, err |-> NotNullFailed]
    ELSE IF ~ioOk THEN [rows |-> rows, err |-> IoError]
    ELSE [rows |-> {r \in rows : r.id # params.id} \cup
                   {[c \in cols |-> IF c \in DOMAIN params THEN params[c] ELSE Null]},
          err |-> ""]

\* The orders in which a list may come out sorted by updatedAt descending; the
\* order of records with equal updatedAt is not determined.
Descending(list) ==
    \A i, j \in 1..Len(list) : i < j => list[i].updatedAt >= list[j].updatedAt

\* db.getAllAsync('SELECT * FROM animals ORDER BY updatedAt DESC')
SelectOrdered == {p \in Perms(rows) : Descending(p)}

-----------------------------------------------------------------------------
(* Animal repository (animal.repo.ts:69-118) *)

\* A variant of sortWeb with the comparison turned round (oldest first).
sortWebAscending(list) ==
    {[i \in 1..Len(list) |-> list[p[i]]] : p \in
        {q \in Perms(1..Len(list)) :
            \A i, j \in 1..Len(list) :
                i < j => list[q[i]].updatedAt <= list[q[j]].updatedAt}}

\* animal.repo.ts:72  list.sort((a, b) => (a.updatedAt < b.updatedAt ? 1 : -1)):
\* the comparator never answers 0, so records with equal updatedAt come out in an
\* order the engine chooses.
sortWeb(list) ==
    {[i \in 1..Len(list) |-> list[p[i]]] : p \in
        {q \in Perms(1..Len(list)) :
            \A i, j \in 1..Len(list) :
                i < j => list[q[i]].updatedAt >= list[q[j]].updatedAt}}

\* A variant of listStored that saves the sorted list back.
listStoredSorted(sorted) == [kind |-> "json", list |-> JsonArray(sorted)]

\* animal.repo.ts:71-72  the stored value after listAnimals() on the web: sort
\* reorders the array loadWeb has just parsed, and nothing calls saveWeb.
listStored(sorted) == blob

\* animal.repo.ts:69-75  the results listAnimals() may produce; the store is
\* not written.  openOk as in getDb.
listAnimals(openOk) ==
    IF isWeb
    THEN IF loadWeb.threw THEN {Throws("loadWeb")}
         ELSE {OkList(l) : l \in sortWeb(loadWeb.list)}
    ELSE IF ~getDb(openOk).ok THEN {Throws(OpenError)}
    ELSE IF cols = {} THEN {Throws(NoTable)}
    ELSE {OkList(l) : l \in SelectOrdered}

\* The stored record with this id: the first element of the blob's array with
\* that id, or the row with that primary key; NoRec when there is none.
StoredRec(id) ==
    IF isWeb
    THEN LET idx == findIndex(loadWeb.list, id)
         IN  IF idx >= 1 THEN loadWeb.list[idx] ELSE NoRec
    ELSE IF \E r \in rows : r.id = id
         THEN CHOOSE r \in rows : r.id = id
         ELSE NoRec

\* A variant of Entity that reads the stored version and increments that.
EntityFromStored(input, t, newId) ==
    LET id == IF Has(input, "id") THEN input.id ELSE newId
    IN  [id        |-> id,
         tag       |-> Prop(input, "tag"),
         sex       |-> Prop(input, "sex"),
         breed     |-> Prop(input, "breed"),
         birthDate |-> Prop(input, "birthDate"),
         updatedAt |-> t,
         version   |-> (IF DOMAIN StoredRec(id) = {} THEN 0 ELSE StoredRec(id).version) + 1]

\* animal.repo.ts:92-100  the normalized entity.
Entity(input, t, newId) ==
    [id        |-> IF Has(input, "id") THEN input.id ELSE newId,
     tag       |-> Prop(input, "tag"),
     sex       |-> Prop(input, "sex"),
     breed     |-> Prop(input, "breed"),
     birthDate |-> Prop(input, "birthDate"),
     updatedAt |-> t,
     version   |-> (IF Has(input, "version") THEN input.version ELSE 0) + 1]

\* A variant of upsertInList that never looks for the id and always prepends.
prependAlways(list, entity) == <<entity>> \o list

\* A variant of upsertInList that patches the stored element ({...old, ...entity}
\* with the undefined properties of entity skipped) instead of replacing it.
mergeInList(list, entity) ==
    LET idx == findIndex(list, entity.id)
    IN  IF idx >= 1
        THEN [list EXCEPT ![idx] =
                [k \in DOMAIN list[idx] \cup DOMAIN entity |->
                    IF Has(entity, k) THEN entity[k] ELSE Prop(list[idx], k)]]
        ELSE <<entity>> \o list

\* A variant of upsertInList that takes a stored element out and puts the new
\* one in front (filter, then unshift).
moveToFront(list, entity) ==
    <<entity>> \o SelectSeq(list, LAMBDA a : Prop(a, "id") # entity.id)

\* A variant of upsertInList that keeps the entity alone, as if the list had
\* been read before the other calls saved theirs.
saveAlone(list, entity) == <<entity>>

\* animal.repo.ts:104-106  the list after the in-memory upsert.
upsertInList(list, entity) ==
    LET idx == findIndex(list, entity.id)
    IN  IF idx >= 1 THEN [list EXCEPT ![idx] = entity] ELSE <<entity>> \o list

\* A variant of InsertParams with two positional parameters in the wrong order.
InsertParamsShifted(entity) ==
    [id        |-> entity.id,
     tag       |-> Bind(entity.tag),
     sex       |-> Bind(entity.sex),
     breed     |-> IF entity.birthDate \in {Undef, Null} THEN Null ELSE entity.birthDate,
     birthDate |-> IF entity.breed \in {Undef, Null} THEN Null ELSE entity.breed,
     updatedAt |-> entity.updatedAt,
     version   |-> entity.version]

\* animal.repo.ts:113-115  the parameters of the INSERT OR REPLACE.
InsertParams(entity) ==
    [id        |-> entity.id,
     tag       |-> Bind(entity.tag),
     sex       |-> Bind(entity.sex),
     breed     |-> IF entity.breed \in {Undef, Null} THEN Null ELSE entity.breed,
     birthDate |-> IF entity.birthDate \in {Undef, Null} THEN Null ELSE entity.birthDate,
     updatedAt |-> entity.updatedAt,
     version   |-> entity.version]

\* A variant of upsertAnimal that catches the rejection of run() and returns
\* the entity all the same.
upsertAnimalSwallow(input, writeOk, openOk, ioOk) ==
    LET entity == Entity(input, now, uuids + 1)
        made   == IF Has(input, "id") THEN uuids ELSE uuids + 1
        db     == getDb(openOk)
        ins    == InsertOrReplace(InsertParams(entity), ioOk)
        same   == [sqliteMod |-> sqliteMod, dbPromise |-> dbPromise, opens |-> opens,
                   rejected |-> rejected, ok |-> TRUE]
    IN  IF isWeb
        THEN [blob |-> saveWeb(upsertInList(loadWeb.list, entity), writeOk),
              rows |-> rows, db |-> same, uuids |-> made, ret |-> Ok(entity)]
        ELSE [blob |-> blob, rows |-> IF db.ok THEN ins.rows ELSE rows, db |-> db,
              uuids |-> made, ret |-> Ok(entity)]

\* animal.repo.ts:86-118  upsertAnimal(input): the store, the handle and the
\* result after the call.  writeOk: localStorage accepts the write; openOk as in
\* getDb; ioOk as in InsertOrReplace.
upsertAnimal(input, writeOk, openOk, ioOk) ==
    LET entity == Entity(input, now, uuids + 1)
        made   == IF Has(input, "id") THEN uuids ELSE uuids + 1
        db     == getDb(openOk)
        ins    == InsertOrReplace(InsertParams(entity), ioOk)
        same   == [sqliteMod |-> sqliteMod, dbPromise |-> dbPromise, opens |-> opens,
                   rejected |-> rejected, ok |-> TRUE]
    IN  IF isWeb
        THEN IF loadWeb.threw
             THEN [blob |-> blob, rows |-> rows, db |-> same, uuids |-> made,
                   ret |-> Throws("loadWeb")]
             ELSE [blob |-> saveWeb(upsertInList(loadWeb.list, entity), writeOk),
                   rows |-> rows, db |-> same, uuids |-> made, ret |-> Ok(entity)]
        ELSE IF ~db.ok
             THEN [blob |-> blob, rows |-> rows, db |-> db, uuids |-> made,
                   ret |-> Throws(OpenError)]
        ELSE IF ins.err # ""
             THEN [blob |-> blob, rows |-> rows, db |-> db, uuids |-> made,
                   ret |-> Throws(ins.err)]
        ELSE [blob |-> blob, rows |-> ins.rows, db |-> db, uuids |-> made,
              ret |-> Ok(entity)]

\* getAnimalById(id): a linear scan of the loaded collection, or a single-row
\* lookup by primary key through the shared handle; not-found is a result, a
\* store that cannot be opened is an error.
getAnimalById(id, openOk) ==
    IF isWeb
    THEN IF loadWeb.threw THEN Throws("loadWeb")
         ELSE IF StoredRec(id) = NoRec THEN NotFound ELSE Ok(StoredRec(id))
    ELSE IF ~getDb(openOk).ok THEN Throws(OpenError)
    ELSE IF StoredRec(id) = NoRec THEN NotFound ELSE Ok(StoredRec(id))

\* sqlite.ts:222-226  the loop over the columns PRAGMA table_info did not list:
\* one ALTER TABLE animals ADD COLUMN each, on the table as it is by then.  The
\* statement fails when the column exists already; failIn = 1: the engine fails
\* this statement, 2: the next one, ...; below 1: none.  A failure ends the loop
\* and leaves the columns added so far.
RECURSIVE addMissing(_, _, _, _)
addMissing(tcols, trows, todo, failIn) ==
    IF todo = <<>> THEN [cols |-> tcols, rows |-> trows, err |-> ""]
    ELSE IF failIn = 1 THEN [cols |-> tcols, rows |-> trows, err |-> IoError]
    ELSE IF Head(todo) \in tcols
    THEN [cols |-> tcols, rows |-> trows, err |-> DuplicateColumn]
    ELSE addMissing(tcols \cup {Head(todo)}, AddColumns(trows, {Head(todo)}),
                    Tail(todo), failIn - 1)

\* A variant of ensureSchema that drops the table and creates it anew.
ensureSchemaRecreate(failAt) ==
    IF failAt \in 1..3
    THEN [cols |-> cols, notNull |-> notNull, rows |-> rows, err |-> IoError]
    ELSE [cols |-> CurrentCols, notNull |-> CurrentNotNull, rows |-> {}, err |-> ""]

\* A variant of ensureSchema whose loop does not ask has(name) and adds every
\* column of the list.
ensureSchemaNoHas(failAt) ==
    LET created == IF cols = {} THEN CurrentCols ELSE cols
        crNotNull == IF cols = {} THEN CurrentNotNull ELSE notNull
        m == addMissing(created, rows, addIfMissingOrder, failAt - 3)
    IN  IF failAt \in {1, 2}
        THEN [cols |-> cols, notNull |-> notNull, rows |-> rows, err |-> IoError]
        ELSE IF failAt = 3
        THEN [cols |-> created, notNull |-> crNotNull, rows |-> rows, err |-> IoError]
        ELSE [cols |-> m.cols, notNull |-> crNotNull, rows |-> m.rows, err |-> m.err]

\* sqlite.ts:178-226  the statements of initDb on an open handle: (1) PRAGMA
\* journal_mode = WAL, (2) CREATE TABLE IF NOT EXISTS with the full schema,
\* (3) PRAGMA table_info, then one ALTER TABLE ADD COLUMN for each column of
\* addIfMissing that table_info did not list.  failAt: the statement, counted
\* in the order executed, that the engine fails (0: none); the rejection of
\* execAsync / getAllAsync is not caught, so the statements after it do not run.
ensureSchema(failAt) ==
    LET created == IF cols = {} THEN CurrentCols ELSE cols
        crNotNull == IF cols = {} THEN CurrentNotNull ELSE notNull
        todo == SelectSeq(addIfMissingOrder, LAMBDA c : c \notin created)
        m == addMissing(created, rows, todo, failAt - 3)
    IN  IF failAt \in {1, 2}
        THEN [cols |-> cols, notNull |-> notNull, rows |-> rows, err |-> IoError]
        ELSE IF failAt = 3
        THEN [cols |-> created, notNull |-> crNotNull, rows |-> rows, err |-> IoError]
        ELSE [cols |-> m.cols, notNull |-> crNotNull, rows |-> m.rows, err |-> m.err]

\* A variant of initDb that catches a failed open and a failed statement and
\* resolves all the same.
initDbSwallow(openOk, failAt) ==
    LET db == getDb(openOk)
        same == [sqliteMod |-> sqliteMod, dbPromise |-> dbPromise, opens |-> opens,
                 rejected |-> rejected, ok |-> TRUE]
        es == ensureSchema(failAt)
    IN  IF isWeb
        THEN [cols |-> cols, notNull |-> notNull, rows |-> rows, db |-> same,
              ret |-> OkVoid]
        ELSE IF ~db.ok
             THEN [cols |-> cols, notNull |-> notNull, rows |-> rows, db |-> db,
                   ret |-> OkVoid]
        ELSE [cols |-> es.cols, notNull |-> es.notNull, rows |-> es.rows, db |-> db,
              ret |-> OkVoid]

\* sqlite.ts:174-227  initDb() run to completion: the table and the handle after
\* it.  openOk as in getDb, failAt as in ensureSchema.
initDb(openOk, failAt) ==
    LET db == getDb(openOk)
        same == [sqliteMod |-> sqliteMod, dbPromise |-> dbPromise, opens |-> opens,
                 rejected |-> rejected, ok |-> TRUE]
        es == ensureSchema(failAt)
    IN  IF isWeb
        THEN [cols |-> cols, notNull |-> notNull, rows |-> rows, db |-> same,
              ret |-> OkVoid]
        ELSE IF ~db.ok
             THEN [cols |-> cols, notNull |-> notNull, rows |-> rows, db |-> db,
                   ret |-> Throws(OpenError)]
        ELSE [cols |-> es.cols, notNull |-> es.notNull, rows |-> es.rows, db |-> db,
              ret |-> IF es.err = "" THEN OkVoid ELSE Throws(es.err)]

-----------------------------------------------------------------------------
(* The calls *)

\* What the form sends (AnimalsScreen.tsx:334-343): tag, type and sex always,
\* the optional fields as a value or as undefined.
Payloads ==
    { [tag |-> "B-002", type |-> "BEZERRO", sex |-> "F", breed |-> Undef,
       birthDate |-> Undef, weightKg |-> Undef],
      [tag |-> "A-001", type |-> "MATRIZ", sex |-> "M", breed |-> "Angus",
       birthDate |-> "2024-01-01", weightKg |-> "120"] }

\* The input made of payload p, of id (0: none supplied) and of version (0: none).
MkInput(p, id, version) ==
    [k \in DOMAIN p \cup (IF id > 0 THEN {"id"} ELSE {})
                    \cup (IF version > 0 THEN {"version"} ELSE {}) |->
        IF k = "id" THEN id ELSE IF k = "version" THEN version ELSE p[k]]

\* animal.repo.ts:86-88  what a caller other than the form's save (which tests
\* the tag first, AnimalsScreen.tsx:323-327) may pass: an empty tag, no tag, no
\* type, no sex.
InvalidPayloads ==
    { [tag |-> "", type |-> "BEZERRO", sex |-> "F", breed |-> Undef,
       birthDate |-> Undef, weightKg |-> Undef],
      [tag |-> "C-003", type |-> Undef, sex |-> "M", breed |-> Undef,
       birthDate |-> Undef, weightKg |-> Undef],
      [tag |-> "C-003", type |-> "BEZERRO", sex |-> Undef, breed |-> Undef,
       birthDate |-> Undef, weightKg |-> Undef],
      [tag |-> Undef, type |-> "BEZERRO", sex |-> "F", breed |-> Undef,
       birthDate |-> Undef, weightKg |-> Undef] }

Callers == 1..NumCallers

Idle == [at |-> "idle", op |-> "none"]

\* A caller's upsertAnimal: the entity it computed and what it returned or
\* threw (Pending while it awaits run()), and whether its write to the backend
\* took effect.
Pending == [kind |-> "pending", rec |-> NoRec, list |-> <<>>, err |-> ""]
NoJob == [entity |-> NoRec, ret |-> OkVoid, wrote |-> FALSE]

\* call.id: the id the call is about; call.before: the record stored under it
\* when the call was made (for initDb: the table when the call was made);
\* call.wrote: the backend write took effect.
NoCall == [op |-> "none", id |-> 0, input |-> NoRec, before |-> NoRec, wrote |-> FALSE]

Init ==
    /\ isWeb \in BOOLEAN
    /\ blob \in IF isWeb
                THEN {[kind |-> "absent", list |-> <<>>],
                      [kind |-> "corrupt", list |-> <<>>],
                      [kind |-> "json", list |-> <<>>]}
                ELSE {[kind |-> "absent", list |-> <<>>]}
    /\ cols \in IF isWeb THEN {{}} ELSE {{}, OldCols}
    /\ notNull = IF cols = {} THEN {} ELSE OldNotNull
    /\ rows = {}
    /\ sqliteMod = FALSE
    /\ dbPromise = 0
    /\ opens = 0
    /\ rejected = {}
    /\ now = 1
    /\ uuids = 0
    /\ call = NoCall
    /\ ret = OkVoid
    /\ pc = [p \in Callers |-> Idle]
    /\ handle = [p \in Callers |-> 0]
    /\ inflight = [p \in Callers |-> NoJob]

\* What the environment may answer: the open is attempted only while no promise
\* is memoized on the structured backend, localStorage is written only on the
\* web, the disk only elsewhere.
OpenOutcomes == IF ~isWeb /\ dbPromise = 0 THEN BOOLEAN ELSE {TRUE}
WriteOutcomes == IF isWeb THEN BOOLEAN ELSE {TRUE}
IoOutcomes == IF isWeb THEN {TRUE} ELSE BOOLEAN
SchemaOutcomes == IF isWeb THEN {0} ELSE 0..MaxFailAt

\* Time passes between two calls.
Tick ==
    /\ now < MaxTime
    /\ now' = now + 1
    /\ UNCHANGED <<isWeb, storeVars, dbVars, uuids, call, ret, openVars>>

SetDb(db) ==
    /\ sqliteMod' = db.sqliteMod
    /\ dbPromise' = db.dbPromise
    /\ opens' = db.opens
    /\ rejected' = db.rejected

\* AnimalsScreen.tsx:37  await initDb()
InitDbCall ==
    \E openOk \in OpenOutcomes, failAt \in SchemaOutcomes :
        \E o \in {initDb(openOk, failAt)} :
            /\ cols' = o.cols
            /\ notNull' = o.notNull
            /\ rows' = o.rows
            /\ SetDb(o.db)
            /\ call' = [NoCall EXCEPT !.op = "initDb",
                                      !.before = [cols |-> cols, notNull |-> notNull,
                                                  rows |-> rows]]
            /\ ret' = o.ret
            /\ UNCHANGED <<isWeb, blob, now, uuids, openVars>>

\* AnimalsScreen.tsx:38  await listAnimals()
ListAnimalsCall ==
    \E openOk \in OpenOutcomes :
        \E r \in listAnimals(openOk) :
            /\ IF isWeb THEN UNCHANGED dbVars ELSE SetDb(getDb(openOk))
            /\ blob' = IF isWeb /\ r.kind = "ok" THEN listStored(r.list) ELSE blob
            /\ call' = [NoCall EXCEPT !.op = "listAnimals"]
            /\ ret' = r
            /\ UNCHANGED <<isWeb, cols, notNull, rows, now, uuids, openVars>>

\* AnimalsScreen.tsx:308  await getAnimalById(id), for an id handed out before
\* or for one never used.
GetAnimalByIdCall ==
    \E id \in 1..(uuids + 1), openOk \in OpenOutcomes :
        /\ IF isWeb THEN UNCHANGED dbVars ELSE SetDb(getDb(openOk))
        /\ call' = [NoCall EXCEPT !.op = "getAnimalById", !.id = id,
                                  !.before = StoredRec(id)]
        /\ ret' = getAnimalById(id, openOk)
        /\ UNCHANGED <<isWeb, storeVars, now, uuids, openVars>>

\* One upsertAnimal(input) call, run to completion.
UpsertStep(input, writeOk, openOk, ioOk) ==
    \E o \in {upsertAnimal(input, writeOk, openOk, ioOk)} :
        /\ blob' = o.blob
        /\ rows' = o.rows
        /\ SetDb(o.db)
        /\ uuids' = o.uuids
        /\ call' = [op |-> "upsertAnimal", id |-> Entity(input, now, uuids + 1).id,
                    input |-> input,
                    before |-> StoredRec(Entity(input, now, uuids + 1).id),
                    wrote |-> o.ret.kind = "ok" /\ writeOk]
        /\ ret' = o.ret
        /\ UNCHANGED <<isWeb, cols, notNull, now, openVars>>

\* AnimalsScreen.tsx:334  await upsertAnimal(input)
UpsertAnimalCall ==
    \E p \in Payloads, id \in 0..uuids, version \in 0..MaxVersion,
       writeOk \in WriteOutcomes, openOk \in OpenOutcomes, ioOk \in IoOutcomes :
        /\ id = 0 => uuids < MaxCreate
        /\ UpsertStep(MkInput(p, id, version), writeOk, openOk, ioOk)

Next == Tick \/ InitDbCall \/ ListAnimalsCall \/ GetAnimalByIdCall \/ UpsertAnimalCall

Spec == Init /\ [][Next]_vars

-----------------------------------------------------------------------------
(* The repository called with inputs the form would not send *)

\* animal.repo.ts:86-118  upsertAnimal(input) with an input that lacks a
\* required field; the call creates a record (no id, no version supplied).
UpsertInvalidCall ==
    \E p \in InvalidPayloads,
       writeOk \in WriteOutcomes, openOk \in OpenOutcomes, ioOk \in IoOutcomes :
        /\ uuids < MaxCreate
        /\ UpsertStep(MkInput(p, 0, 0), writeOk, openOk, ioOk)

NextInput == InitDbCall \/ UpsertAnimalCall \/ UpsertInvalidCall

SpecInput == Init /\ [][NextInput]_vars

-----------------------------------------------------------------------------
(* The shared handle under concurrent callers (sqlite.ts:154-167, 174-176,   *)
(* 230-232, 238-240).  Every `await` is a point where another caller runs.   *)

DbOps == {"initDb", "run", "getAll"}

\* sqlite.ts:175/231/239 and 161-163: caller p starts op; on the web it
\* returns at once; otherwise getDb tests dbPromise and, finding it null, calls
\* getMod, which either starts the import (156) or returns the cached module,
\* and awaits it.
dbStart(p, op) ==
    /\ pc[p].at = "idle"
    /\ pc' = [pc EXCEPT ![p] =
                IF isWeb THEN Idle
                ELSE IF dbPromise # 0 THEN [at |-> "db", op |-> op]
                ELSE IF sqliteMod THEN [at |-> "mod", op |-> op]
                ELSE [at |-> "import", op |-> op]]
    /\ handle' = [handle EXCEPT ![p] = IF isWeb THEN 0 ELSE dbPromise]
    /\ UNCHANGED <<isWeb, storeVars, dbVars, now, uuids, call, ret, inflight>>

\* sqlite.ts:156  sqliteMod = await import('expo-sqlite')
dbImported(p) ==
    /\ pc[p].at = "import"
    /\ sqliteMod' = TRUE
    /\ pc' = [pc EXCEPT ![p].at = "mod"]
    /\ UNCHANGED <<isWeb, storeVars, dbPromise, opens, rejected, now, uuids, call,
                   ret, handle, inflight>>

\* sqlite.ts:163-166  after `await getMod()`: dbPromise = openDatabaseAsync(..);
\* return dbPromise.  The test of line 162 is not repeated.
dbOpen(p, openOk) ==
    /\ pc[p].at = "mod"
    /\ opens' = opens + 1
    /\ dbPromise' = opens + 1
    /\ rejected' = IF openOk THEN rejected ELSE rejected \cup {opens + 1}
    /\ handle' = [handle EXCEPT ![p] = opens + 1]
    /\ pc' = [pc EXCEPT ![p].at = "db"]
    /\ UNCHANGED <<isWeb, storeVars, sqliteMod, now, uuids, call, ret, inflight>>

\* sqlite.ts:176-226/232-235/240-243  `await getDb()` settles and the caller
\* runs its statements on the handle it got (initDb: the schema), or throws
\* the rejection.
dbUse(p) ==
    /\ pc[p].at = "db"
    /\ pc[p].op \in DbOps
    /\ IF pc[p].op = "initDb" /\ handle[p] \notin rejected
       THEN /\ cols' = ensureSchema(0).cols
            /\ notNull' = ensureSchema(0).notNull
            /\ rows' = ensureSchema(0).rows
       ELSE UNCHANGED <<cols, notNull, rows>>
    /\ pc' = [pc EXCEPT ![p] = Idle]
    /\ UNCHANGED <<isWeb, blob, dbVars, now, uuids, call, ret, handle, inflight>>

NextOpen ==
    \E p \in Callers :
        \/ \E op \in DbOps : dbStart(p, op)
        \/ dbImported(p)
        \/ \E openOk \in BOOLEAN : dbOpen(p, openOk)
        \/ dbUse(p)

SpecOpen == Init /\ [][NextOpen]_vars

-----------------------------------------------------------------------------
(* upsertAnimal under concurrent callers (animal.repo.ts:86-118 over         *)
(* sqlite.ts:230-236).  On the structured backend the call computes its      *)
(* entity, then awaits run(), which awaits getDb() and then db.runAsync; on  *)
(* the blob backend it has no await and runs to its end in one step.         *)

\* A variant of InsertOrReplace that leaves a stored row alone when it is
\* newer than the row offered (a conditional upsert), and reports success.
InsertIfNewer(params, ioOk) ==
    IF \E r \in rows : r.id = params.id /\ r.updatedAt > params.updatedAt
    THEN [rows |-> rows, err |-> ""]
    ELSE InsertOrReplace(params, ioOk)

\* sqlite.ts:233  db.runAsync(sql, params) of the INSERT OR REPLACE.
runAsync(params, ioOk) == InsertOrReplace(params, ioOk)

\* What the concurrent callers send: one form's content, with any id and version.
RacePayloads == {p \in Payloads : p.tag = "A-001"}

\* animal.repo.ts:90-112, sqlite.ts:231-232, 161-163  caller p calls
\* upsertAnimal(input): the clock is read, the entity built; on the web the
\* list is loaded, changed and saved and the entity returned; otherwise run()
\* calls getDb(), which tests dbPromise and, finding it null, awaits getMod().
upStart(p) ==
    /\ pc[p].at = "idle"
    /\ \E pl \in RacePayloads, id \in 0..uuids, version \in 0..MaxVersion,
          writeOk \in WriteOutcomes :
          \E entity \in {Entity(MkInput(pl, id, version), now, uuids + 1)} :
              /\ id = 0 => uuids < MaxCreate
              /\ uuids' = IF id > 0 THEN uuids ELSE uuids + 1
              /\ inflight' = [inflight EXCEPT ![p] =
                                [entity |-> entity,
                                 ret |-> IF isWeb THEN Ok(entity) ELSE Pending,
                                 wrote |-> isWeb /\ writeOk]]
              /\ blob' = IF isWeb
                         THEN saveWeb(upsertInList(loadWeb.list, entity), writeOk)
                         ELSE blob
    /\ pc' = [pc EXCEPT ![p] =
                IF isWeb THEN Idle
                ELSE IF dbPromise # 0 THEN [at |-> "db", op |-> "upsert"]
                ELSE IF sqliteMod THEN [at |-> "mod", op |-> "upsert"]
                ELSE [at |-> "import", op |-> "upsert"]]
    /\ handle' = [handle EXCEPT ![p] = IF isWeb THEN 0 ELSE dbPromise]
    /\ UNCHANGED <<isWeb, cols, notNull, rows, dbVars, now, call, ret>>

\* sqlite.ts:232-233, animal.repo.ts:117  `await getDb()` settles: the caller
\* is thrown the rejection of the open, or its INSERT OR REPLACE executes and
\* upsertAnimal returns the entity, or throws what runAsync threw.
upWrite(p, ioOk) ==
    /\ pc[p].at = "db"
    /\ pc[p].op = "upsert"
    /\ \E ins \in {runAsync(InsertParams(inflight[p].entity), ioOk)} :
          IF handle[p] \in rejected
          THEN /\ rows' = rows
               /\ inflight' = [inflight EXCEPT ![p].ret = Throws(OpenError)]
          ELSE /\ rows' = ins.rows
               /\ inflight' = [inflight EXCEPT ![p].ret =
                                 IF ins.err = "" THEN Ok(inflight[p].entity)
                                 ELSE Throws(ins.err),
                                 ![p].wrote = (ins.err = "")]
    /\ pc' = [pc EXCEPT ![p] = Idle]
    /\ UNCHANGED <<isWeb, blob, cols, notNull, dbVars, now, uuids, call, ret, handle>>

NextUpsert ==
    \/ Tick
    \/ \E p \in Callers :
        \/ upStart(p)
        \/ dbImported(p)
        \/ \E openOk \in BOOLEAN : dbOpen(p, openOk)
        \/ \E ioOk \in BOOLEAN : upWrite(p, ioOk)

SpecUpsert == Init /\ [][NextUpsert]_vars

-----------------------------------------------------------------------------
(* Reading the store, for the properties below *)

\* The stored records, as a set.
Stored == IF isWeb THEN SeqToSet(loadWeb.list) ELSE rows

StoredCount == IF isWeb THEN Len(loadWeb.list) ELSE Cardinality(rows)

\* The structured store is open (or the backend is the blob).
Opened == isWeb \/ (dbPromise # 0 /\ dbPromise \notin rejected)

Upserted == call.op = "upsertAnimal" /\ ret.kind = "ok"

\* The attributes a caller may leave out.
OptionalKeys == {"breed", "birthDate", "weightKg"}

-----------------------------------------------------------------------------
(* C1 *)

\* C1: for successive upsertAnimal calls on one id, each call's version is one
\* more than the version the previous call left for that id, whatever version
\* the caller supplies; the first upsert of an id made without a version gives 1.
C1_VersionSuccessor ==
    Upserted =>
        IF DOMAIN call.before # {}
        THEN ret.rec.version = call.before.version + 1
        ELSE (~Has(call.input, "version") => ret.rec.version = 1)

-----------------------------------------------------------------------------
(* C6 *)

-----------------------------------------------------------------------------
(* C2 *)

\* The record getAnimalById finds under the id just returned equals the record
\* returned, attribute by attribute.
ReadsBack ==
    \E g \in {getAnimalById(ret.rec.id, TRUE)} :
        g.kind = "ok" /\ SameAnimal(g.rec, ret.rec)

\* C2 (as stated): whenever upsertAnimal returns a record r, getAnimalById(r.id)
\* yields a record equal to r on every attribute (null and undefined being
\* equal), on both backends.
C2_RoundTrip == Upserted => ReadsBack

\* C2 (amended): whenever upsertAnimal returns a record r and its backend write
\* took effect, getAnimalById(r.id) yields a record equal to r on every
\* attribute; a blob write that fails is swallowed and r is returned all the same.
C2_RoundTripWhenWritten == (Upserted /\ call.wrote) => ReadsBack

\* C2 witness: a record with an undefined breed was written on the structured
\* backend (where it is stored as NULL) and returned.
C2_Witness == Upserted /\ call.wrote /\ ~isWeb /\ ret.rec.breed = Undef

-----------------------------------------------------------------------------
(* C3 *)

\* C3: however many initDb / run / getAll calls start before the database is
\* open, openDatabaseAsync is invoked at most once and all callers hold the
\* same handle.
C3_SingleOpen ==
    /\ opens <= 1
    /\ \A p, q \in Callers :
          (handle[p] # 0 /\ handle[q] # 0) => handle[p] = handle[q]

-----------------------------------------------------------------------------
(* C4 *)

\* An upsert of a record that was stored, whose write took effect.
Replaced == Upserted /\ call.wrote /\ DOMAIN call.before # {}

-----------------------------------------------------------------------------
(* C5 *)

-----------------------------------------------------------------------------
(* C7 *)

\* No two stored records have the same updatedAt.
DistinctUpdatedAt ==
    \A a, b \in Stored : a # b => a.updatedAt # b.updatedAt

\* C7: when the stored records have pairwise distinct updatedAt, listAnimals
\* (on an open store that holds records) returns, and what it returns holds
\* every stored record exactly once, in strictly descending updatedAt order.
C7_ListDescending ==
    (call.op = "listAnimals" /\ DistinctUpdatedAt) =>
        /\ (Opened /\ StoredCount > 0) => ret.kind = "ok"
        /\ ret.kind = "ok" =>
              /\ Len(ret.list) = StoredCount
              /\ SeqToSet(ret.list) = Stored
              /\ \A i, j \in 1..Len(ret.list) :
                    i < j => ret.list[i].updatedAt > ret.list[j].updatedAt

\* C7 witness: the blob holds two records, the older one first, and listAnimals
\* returned them.
C7_Witness ==
    /\ call.op = "listAnimals"
    /\ ret.kind = "ok"
    /\ isWeb
    /\ Len(ret.list) = 2
    /\ Len(loadWeb.list) = 2
    /\ loadWeb.list[1].updatedAt < loadWeb.list[2].updatedAt

-----------------------------------------------------------------------------
(* C8 *)

\* No two stored records share an id.
UniqueIds ==
    IF isWeb
    THEN \A i, j \in 1..Len(loadWeb.list) :
            i # j => loadWeb.list[i].id # loadWeb.list[j].id
    ELSE \A a, b \in rows : a # b => a.id # b.id

\* The id of the record returned: the id supplied, or else the id generated by
\* this call, under which nothing was stored.
IdKept ==
    IF Has(call.input, "id")
    THEN ret.rec.id = call.input.id
    ELSE ret.rec.id = uuids /\ DOMAIN call.before = {}

\* C8 (as stated): no two stored records share an id; every upsertAnimal that
\* returns has stored its record under the id it returns, which is the id
\* supplied or, when none was supplied, a new one (so N calls without an id
\* give N ids and N stored records).
C8_UniqueIdsAllStored ==
    /\ UniqueIds
    /\ Upserted => (IdKept /\ DOMAIN StoredRec(ret.rec.id) # {})

\* C8 (amended): no two stored records share an id; every upsertAnimal that
\* returns returns the id supplied or, when none was supplied, a new one, and
\* has stored its record under that id when its backend write took effect (a
\* blob write that fails is swallowed: the id is returned, nothing is stored).
C8_UniqueIds ==
    /\ UniqueIds
    /\ Upserted => IdKept
    /\ (Upserted /\ call.wrote) =>
          (DOMAIN StoredRec(ret.rec.id) # {} /\ StoredRec(ret.rec.id).id = ret.rec.id)

\* C8 witness: two records are stored, one of them by the upsert just made,
\* which supplied the id of a stored record.
C8_Witness ==
    /\ Replaced
    /\ Has(call.input, "id")
    /\ StoredCount = 2

-----------------------------------------------------------------------------
(* C9 *)

\* C9: on the structured backend a listAnimals call has the schema ensured
\* before it reads, so on an open store it returns a list (the empty one on a
\* fresh store) and does not fail.
C9_ListEnsuresSchema ==
    (call.op = "listAnimals" /\ ~isWeb /\ Opened) => (cols # {} /\ ret.kind = "ok")

-----------------------------------------------------------------------------
(* C10 *)

-----------------------------------------------------------------------------
(* C11 *)

\* C11: initDb run on a store whose table already has every column of the
\* current schema leaves the columns, their constraints and the rows exactly
\* as they were, and raises nothing of its own: it resolves, unless the engine
\* fails one of the three statements it still executes.
C11_SchemaIdempotent ==
    (call.op = "initDb" /\ CurrentCols \subseteq call.before.cols) =>
        /\ cols = call.before.cols
        /\ notNull = call.before.notNull
        /\ rows = call.before.rows
        /\ ret.kind = "ok" \/ ret.err = IoError

\* C11 witness: initDb resolved on a table that was complete before the call
\* and holds a row.
C11_Witness ==
    /\ call.op = "initDb"
    /\ ret.kind = "ok"
    /\ CurrentCols \subseteq call.before.cols
    /\ rows # {}

-----------------------------------------------------------------------------
(* C12 *)

\* Every row of old is in new with the same value in every column of oldCols
\* and NULL in every other column, and new holds no other row.
RowsKept(old, oldCols, new) ==
    /\ Cardinality(new) = Cardinality(old)
    /\ \A r \in old :
          \E n \in new :
              /\ \A c \in oldCols : n[c] = r[c]
              /\ \A c \in (DOMAIN n) \ oldCols : n[c] = Null

\* C12: initDb on a table that has the columns of the earlier schema (and any
\* of the later ones) removes no column and no row and changes no stored
\* value, also when a statement fails part-way; when it resolves, the table has
\* exactly the columns of the current schema and every row reads NULL in each
\* column added.
C12_AdditiveMigration ==
    (call.op = "initDb" /\ OldCols \subseteq call.before.cols) =>
        /\ call.before.cols \subseteq cols
        /\ RowsKept(call.before.rows, call.before.cols, rows)
        /\ \A r \in rows : DOMAIN r = cols
        /\ ret.kind = "ok" => cols = CurrentCols

\* C12 witness: initDb resolved on a table that had the earlier columns and
\* `type` only, and held a row with a breed.
C12_Witness ==
    /\ call.op = "initDb"
    /\ ret.kind = "ok"
    /\ call.before.cols = OldCols \cup {"type"}
    /\ \E r \in rows : r.breed # Null /\ r.origin = Null

-----------------------------------------------------------------------------
(* C13 *)

\* The input lacks a required field: no tag or an empty one, no type, no sex.
Invalid(input) ==
    \/ ~Has(input, "tag")
    \/ input.tag = ""
    \/ ~Has(input, "type")
    \/ ~Has(input, "sex")

\* C13: upsertAnimal rejects an input whose tag, type or sex is missing, or
\* whose tag is empty: the call raises an error (of whatever kind) instead of
\* returning a record, and the record stored under the id of the call is the
\* one stored before it.
C13_InvalidRejected ==
    (call.op = "upsertAnimal" /\ Invalid(call.input)) =>
        /\ ret.kind = "error"
        /\ StoredRec(call.id) = call.before

-----------------------------------------------------------------------------
(* C14 *)

\* What upsertAnimal returned is the entity normalized from its input: the
\* id of the call, the input's tag, sex, breed and birth date, the input's
\* version (or 0) plus one, and a timestamp not later than the clock.
ReturnedNormalized ==
    /\ ret = Ok(Entity(call.input, ret.rec.updatedAt, call.id))
    /\ ret.rec.updatedAt <= now

\* C14: on the blob backend an upsertAnimal whose storage write fails returns
\* the normalized entity and raises nothing, and the stored value after the
\* call is the stored value before it.
C14_BlobWriteFailure ==
    [][(isWeb /\ call'.op = "upsertAnimal" /\ ~call'.wrote) =>
            /\ ret'.kind = "ok"
            /\ ReturnedNormalized'
            /\ blob' = blob]_vars

\* C14 witness: an upsert of a stored id returned its entity without the write
\* taking effect, the blob holding two records.
C14_Witness ==
    /\ isWeb
    /\ call.op = "upsertAnimal"
    /\ ~call.wrote
    /\ ret.kind = "ok"
    /\ DOMAIN call.before # {}
    /\ StoredCount = 2

-----------------------------------------------------------------------------
(* C15 *)

\* The row of the record returned is stored, column by column.
RowStored ==
    \E r \in rows :
        \A c \in DOMAIN InsertParams(ret.rec) : r[c] = InsertParams(ret.rec)[c]

\* C15: on the structured backend upsertAnimal either returns its entity, and
\* then the row is stored, or raises the failure of the open or of the insert
\* (no table, a NOT NULL constraint, the disk), and then the rows after the call
\* are the rows before it; it never returns an entity whose insert failed.
C15_InsertFailureRaised ==
    [][(~isWeb /\ call'.op = "upsertAnimal") =>
            IF ret'.kind = "ok"
            THEN RowStored'
            ELSE /\ ret'.kind = "error"
                 /\ ret'.err \in {OpenError, NoTable, NotNullFailed, IoError}
                 /\ rows' = rows]_vars

\* C15 witness: the replacement of a stored row failed on the disk, was raised,
\* and the row is still the one stored before.
C15_Witness ==
    /\ ~isWeb
    /\ call.op = "upsertAnimal"
    /\ ret = Throws(IoError)
    /\ DOMAIN call.before # {}
    /\ StoredRec(call.id) = call.before
    /\ call.before.tag # call.input.tag

-----------------------------------------------------------------------------
(* C16 *)

\* C16 (as stated): on the blob backend, while the stored value is absent or
\* unparsable, listAnimals returns the empty list and upsertAnimal returns its
\* entity and leaves stored the list made of that one record.
C16_UnreadableBlobIsEmpty ==
    [][(isWeb /\ blob.kind # "json") =>
            /\ call'.op = "listAnimals" => ret' = OkList(<<>>)
            /\ call'.op = "upsertAnimal" =>
                  /\ ret'.kind = "ok"
                  /\ blob' = [kind |-> "json", list |-> <<JsonObject(ret'.rec)>>]]_vars

\* C16 (amended): on the blob backend, while the stored value is absent or
\* unparsable, listAnimals returns the empty list and upsertAnimal returns its
\* entity; when its write takes effect the stored value is the list made of
\* that one record, and when the write fails (which is swallowed) the stored
\* value stays as it was.
C16_UnreadableBlobIsEmptyWhenWritten ==
    [][(isWeb /\ blob.kind # "json") =>
            /\ call'.op = "listAnimals" => ret' = OkList(<<>>)
            /\ call'.op = "upsertAnimal" =>
                  /\ ret'.kind = "ok"
                  /\ blob' = IF call'.wrote
                             THEN [kind |-> "json", list |-> <<JsonObject(ret'.rec)>>]
                             ELSE blob]_vars

\* C16 witness: listAnimals returned the empty list from an unparsable value,
\* which an upsert made earlier had not been able to overwrite.
C16_Witness ==
    /\ isWeb
    /\ blob.kind = "corrupt"
    /\ call.op = "listAnimals"
    /\ ret = OkList(<<>>)
    /\ uuids >= 1

-----------------------------------------------------------------------------
(* C17 *)

\* C17: on the structured backend initDb resolves only when the store is open
\* and every statement has run (the table then has all current columns); when
\* the open failed it raises the open's failure, when a statement failed that
\* statement's; nothing is written to the blob instead, and the open is
\* attempted once only, whatever failed.
C17_SchemaFailureRaised ==
    /\ (~isWeb /\ call.op = "initDb") =>
          /\ ret.kind = "ok" => (Opened /\ CurrentCols \subseteq cols)
          /\ ~Opened => ret = Throws(OpenError)
          /\ ret.kind # "ok" => (ret.kind = "error" /\ ret.err \in {OpenError, IoError})
    /\ ~isWeb => (blob.kind = "absent" /\ opens <= 1)

\* C17 witness: initDb raised the failure of an open that is not attempted
\* again: one open was made, and an upsert was raised the same failure.
C17_Witness ==
    /\ ~isWeb
    /\ call.op = "initDb"
    /\ ret = Throws(OpenError)
    /\ opens = 1
    /\ uuids >= 1

-----------------------------------------------------------------------------
(* C18 *)

\* The one row stored under the id of entity e is e's row.
RowIs(e, rs) ==
    /\ Cardinality({r \in rs : r.id = e.id}) = 1
    /\ \E r \in rs :
          \A c \in DOMAIN InsertParams(e) : r[c] = InsertParams(e)[c]

\* C18: on the structured backend, whenever the insert of a caller's
\* upsertAnimal executes, the row stored under its id afterwards is that
\* caller's row, whatever row another call stored there in the meantime and
\* whatever updatedAt and version that row has; the call returns its entity
\* and fails only if the store could not be opened, the table is missing or the
\* engine fails the statement, never because of the other call.
C18_LastWriteWins ==
    [][\A p \in Callers :
          (pc[p].op = "upsert" /\ pc[p].at = "db" /\ pc'[p].at = "idle") =>
              /\ inflight'[p].ret.kind = "ok" =>
                    /\ inflight'[p].ret = Ok(inflight[p].entity)
                    /\ RowIs(inflight[p].entity, rows')
              /\ inflight'[p].ret.kind # "ok" =>
                    /\ inflight'[p].ret.kind = "error"
                    /\ inflight'[p].ret.err \in {OpenError, NoTable, IoError}
              /\ (handle[p] \notin rejected /\ cols # {}) =>
                    inflight'[p].ret \in {Ok(inflight[p].entity), Throws(IoError)}]_vars

\* C18 witness: two calls on one id have both returned; the row stored is the
\* row of the one that computed the earlier updatedAt and the lower version.
C18_Witness ==
    /\ ~isWeb
    /\ \E p, q \in Callers :
          /\ pc[p].at = "idle" /\ pc[q].at = "idle"
          /\ DOMAIN inflight[p].entity # {} /\ DOMAIN inflight[q].entity # {}
          /\ inflight[p].ret.kind = "ok" /\ inflight[q].ret.kind = "ok"
          /\ inflight[p].entity.id = inflight[q].entity.id
          /\ inflight[p].entity.updatedAt < inflight[q].entity.updatedAt
          /\ inflight[p].entity.version < inflight[q].entity.version
          /\ RowIs(inflight[p].entity, rows)

-----------------------------------------------------------------------------
(* C19 *)

\* C19: once initDb has resolved on the structured backend, every stored row
\* has a non-null id, tag, type, sex, updatedAt and version.
C19_RequiredNonNull ==
    (~isWeb /\ call.op = "initDb" /\ ret.kind = "ok") =>
        \A r \in rows : \A c \in CurrentNotNull : Has(r, c)

-----------------------------------------------------------------------------
(* C20 *)

\* The place of a tag in ascending string order, among the tags in use.
TagRank(tag) == CASE tag = "A-001" -> 1 [] tag = "B-002" -> 2 [] OTHER -> 0

\* C20: the list listAnimals returns has the records of equal updatedAt in
\* ascending order of tag, on both backends.
C20_TieBreakByTag ==
    (call.op = "listAnimals" /\ ret.kind = "ok") =>
        \A i, j \in 1..Len(ret.list) :
            (i < j /\ ret.list[i].updatedAt = ret.list[j].updatedAt) =>
                TagRank(ret.list[i].tag) <= TagRank(ret.list[j].tag)

-----------------------------------------------------------------------------
(* C21 *)

\* The list new is the list old with the record rec put at the place of the
\* element of that id, or in front when old has none; every other element is
\* where it was, unchanged.
UpsertedInto(old, rec, new) ==
    LET idx == findIndex(old, rec.id)
    IN  IF idx >= 1
        THEN /\ Len(new) = Len(old)
             /\ new[idx] = rec
             /\ \A i \in 1..Len(old) : i # idx => new[i] = old[i]
        ELSE /\ Len(new) = Len(old) + 1
             /\ new[1] = rec
             /\ \A i \in 1..Len(old) : new[i + 1] = old[i]

\* C21 (as stated): on the blob backend every upsertAnimal leaves stored the
\* collection it loaded with its record put at the place of the element of
\* that id (same length) or, when the id is unknown, in front (length plus
\* one), every other record keeping its value and its place in the order.
C21_ReplaceInPlaceOrPrepend ==
    [][(isWeb /\ call'.op = "upsertAnimal") =>
            /\ blob'.kind = "json"
            /\ UpsertedInto(loadWeb.list, JsonObject(ret'.rec), blob'.list)]_vars

\* C21 (amended): on the blob backend every upsertAnimal whose storage write
\* takes effect leaves stored the collection it loaded with its record put at
\* the place of the element of that id (same length) or, when the id is
\* unknown, in front (length plus one), every other record keeping its value
\* and its place; when the write fails the stored value is left as it was.
C21_ReplaceInPlaceOrPrependWhenWritten ==
    [][(isWeb /\ call'.op = "upsertAnimal") =>
            IF call'.wrote
            THEN /\ blob'.kind = "json"
                 /\ UpsertedInto(loadWeb.list, JsonObject(ret'.rec), blob'.list)
            ELSE blob' = blob]_vars

\* C21 witness: the second of two stored records was replaced where it was.
C21_Witness ==
    /\ isWeb
    /\ Replaced
    /\ Len(loadWeb.list) = 2
    /\ loadWeb.list[2].id = call.id
    /\ loadWeb.list[2].tag # call.before.tag

-----------------------------------------------------------------------------
(* C22 *)

\* C22: a listAnimals call leaves the persisted state as it was: the stored
\* blob (its elements and their order, or its absence, or its unparsable
\* value), the table's columns and constraints, and the rows.
C22_ListReadOnly ==
    [][call'.op = "listAnimals" =>
            /\ blob' = blob
            /\ rows' = rows
            /\ cols' = cols
            /\ notNull' = notNull]_vars

\* C22 witness: listAnimals returned two records in another order than the
\* one they are stored in.
C22_Witness ==
    /\ isWeb
    /\ call.op = "listAnimals"
    /\ ret.kind = "ok"
    /\ Len(ret.list) = 2
    /\ ret.list # loadWeb.list

-----------------------------------------------------------------------------
(* C23 *)

\* C23: on a table created by the current ensureSchema (type among its
\* NOT NULL columns), upsertAnimal with a tag, a type and a sex succeeds
\* unless the engine fails the statement, and the row stored under the id
\* returned holds every attribute the input supplied.
C23_UpsertOnCurrentSchema ==
    (/\ ~isWeb
     /\ call.op = "upsertAnimal"
     /\ Opened
     /\ cols = CurrentCols
     /\ notNull = CurrentNotNull
     /\ ~Invalid(call.input)) =>
        /\ ret \in {Throws(IoError)} \/ ret.kind = "ok"
        /\ ret.kind = "ok" =>
              \E r \in rows :
                  /\ r.id = ret.rec.id
                  /\ \A k \in DOMAIN call.input :
                        Has(call.input, k) => r[k] = call.input[k]

-----------------------------------------------------------------------------
(* C24 *)

\* Caller p's upsertAnimal has run on the blob backend in this step.
WebUpsertBy(p) == isWeb /\ pc[p].at = "idle" /\ inflight'[p] # inflight[p]

\* The records stored under another id than the entity's are still stored.
OthersKept(entity) ==
    \A i \in 1..Len(loadWeb.list) :
        loadWeb.list[i].id # entity.id =>
            \E j \in 1..Len(blob'.list) : blob'.list[j] = loadWeb.list[i]

\* C24, as stated: on the blob backend every upsertAnimal of every caller runs
\* from its load to its save in one step, after which its record is in the
\* stored collection and the records the other calls stored under other ids
\* are still there.
C24_NoLostInsert ==
    [][\A p \in Callers :
          WebUpsertBy(p) =>
              /\ blob'.kind = "json"
              /\ \E j \in 1..Len(blob'.list) :
                    blob'.list[j] = JsonObject(inflight'[p].entity)
              /\ OthersKept(inflight'[p].entity)]_vars

\* C24: the same, for the calls whose storage write took effect; a call whose
\* write failed leaves the stored value as it was.
C24_NoLostInsertWhenWritten ==
    [][\A p \in Callers :
          WebUpsertBy(p) =>
              IF inflight'[p].wrote
              THEN /\ blob'.kind = "json"
                   /\ \E j \in 1..Len(blob'.list) :
                         blob'.list[j] = JsonObject(inflight'[p].entity)
                   /\ OthersKept(inflight'[p].entity)
              ELSE blob' = blob]_vars

\* C24 witness: the two callers have each stored a record under an id of its
\* own, and both records are in the stored collection.
C24_Witness ==
    /\ isWeb
    /\ \A p \in Callers : inflight[p].wrote
    /\ inflight[1].entity.id # inflight[2].entity.id
    /\ StoredCount = 2
    /\ \A p \in Callers : JsonObject(inflight[p].entity) \in Stored

-----------------------------------------------------------------------------
(* C25 *)

\* C25: once an open has been invoked and has failed, every initDb, run or
\* getAll call started afterwards on the structured backend is handed a
\* rejected open without the module being awaited or the open invoked again.
C25_FailedOpenMemoized ==
    [][\A p \in Callers :
          (/\ ~isWeb
           /\ rejected # {}
           /\ pc[p].at = "idle"
           /\ pc'[p].at # "idle") =>
              /\ pc'[p].at = "db"
              /\ handle'[p] \in rejected
              /\ opens' = opens]_vars

-----------------------------------------------------------------------------
(* C26 *)

\* The table is the one a migration that failed part-way leaves: the earlier
\* columns, some of the later ones, not all of them.
PartMigrated ==
    /\ ~isWeb
    /\ OldCols \subseteq cols
    /\ cols # OldCols
    /\ cols # CurrentCols

\* C26: an initDb that fails while adding the missing columns keeps the
\* columns it has added and every row; an initDb run on the table so left
\* removes no column and no row, adds only columns that were still missing,
\* never asks for a column the table has, and resolves with exactly the
\* current columns unless the engine fails a statement again.
C26_ResumeAfterPartialFailure ==
    [][(~isWeb /\ call'.op = "initDb") =>
          /\ ret' = Throws(IoError) =>
                /\ cols \subseteq cols'
                /\ RowsKept(rows, cols, rows')
          /\ PartMigrated =>
                /\ cols \subseteq cols'
                /\ (cols' \ cols) \subseteq (addIfMissing \ cols)
                /\ RowsKept(rows, cols, rows')
                /\ notNull' = notNull
                /\ ret' \in {OkVoid, Throws(IoError)}
                /\ ret' = OkVoid => cols' = CurrentCols]_vars

\* C26 witness: initDb has resolved on a table that an earlier, failed initDb
\* had left with some of the later columns, and the rows it held are there.
C26_Witness ==
    /\ ~isWeb
    /\ call.op = "initDb"
    /\ ret = OkVoid
    /\ OldCols \subseteq call.before.cols
    /\ call.before.cols \notin {OldCols, CurrentCols}
    /\ cols = CurrentCols
    /\ call.before.rows # {}
    /\ RowsKept(call.before.rows, call.before.cols, rows)

====
